---- MODULE Spec2Model ----
(***************************************************************************)
(* Model of random_forest.ipynb: the galaxy classification notebook.       *)
(*                                                                         *)
(* The notebook's own code is generate_features_targets,                   *)
(* calculate_accuracy, plot_confusion_matrix, rf_predict_actual and the    *)
(* __main__ script.  The script is a straight line of statements; the      *)
(* model has one action per statement of it (and of rf_predict_actual,     *)
(* which it calls), and `pc` names the statement that runs next.           *)
(*                                                                         *)
(* Numbers.  A float64 is modelled as an exact fraction                    *)
(* [num |-> p, den |-> q], q > 0, in lowest terms; a zero denominator      *)
(* encodes the IEEE specials numpy produces on division by zero:           *)
(* 0/0 is nan, 1/0 is inf, -1/0 is -inf.  Integers (counts) are TLA+       *)
(* integers.  Strings that the code slices (class labels, formatted        *)
(* numbers) are sequences of one-character strings.                        *)
(***************************************************************************)
EXTENDS Integers, Sequences, FiniteSets, TLC

\* ------------------------------------------------------------------ bounds

\* Longest catalogue the feature-assembly specification draws.
MaxTableRows == 3
\* Longest pair of label arrays the accuracy specification draws.
MaxLen == 3
\* Longest catalogue the script is run on.
MaxRows == 11
\* Largest side of the matrices the plotting specification draws.
MaxDim == 2

\* ------------------------------------------------------------- float64

Abs(x) == IF x < 0 THEN -x ELSE x

Sign(x) == IF x < 0 THEN -1 ELSE IF x > 0 THEN 1 ELSE 0

RECURSIVE GCD(_, _)
GCD(a, b) == IF b = 0 THEN a ELSE GCD(b, a % b)

NaN == [num |-> 0, den |-> 0]

IsNaN(x) == x.den = 0 /\ x.num = 0

IsFinite(x) == x.den > 0

\* The float64 holding the integer n (astype('float'), or an int operand of /).
F(n) == [num |-> n, den |-> 1]

\* numpy's true division a / b of two finite floats: the quotient in lowest
\* terms, and nan or a signed infinity (with a warning, not an exception)
\* when b is zero.
FDiv(a, b) ==
    LET p == a.num * b.den
        q == a.den * b.num
    IN  IF q = 0
        THEN [num |-> Sign(p), den |-> 0]
        ELSE LET g == GCD(Abs(p), Abs(q))
             IN  [num |-> (Sign(q) * p) \div g, den |-> Abs(q) \div g]

\* a > b on floats; every comparison with nan is false.
FGt(a, b) ==
    IF IsNaN(a) \/ IsNaN(b) THEN FALSE
    ELSE IF a.den = 0 /\ b.den = 0 THEN a.num > b.num
    ELSE IF a.den = 0 THEN a.num > 0
    ELSE IF b.den = 0 THEN b.num < 0
    ELSE a.num * b.den > b.num * a.den

\* --------------------------------------------------------- class labels

\* Width of the '<U20' target array: at most 20 characters per element.
U20 == 20

Spiral == <<"s","p","i","r","a","l">>

Elliptical == <<"e","l","l","i","p","t","i","c","a","l">>

Merger == <<"m","e","r","g","e","r">>

\* A class name of 22 characters: longer than a '<U20' element.
BarredSpiral ==
    <<"b","a","r","r","e","d","_","s","p","i","r","a","l","_","t","y","p","e",
      "_","S","B","b">>

\* Assignment of a string into a '<U20' array element: numpy keeps the first
\* 20 characters and silently drops the rest.
AsU20(s) == SubSeq(s, 1, IF Len(s) < U20 THEN Len(s) ELSE U20)

\* ------------------------------------------------------------ catalogue

NumericFields ==
    <<"u-g", "g-r", "r-i", "i-z", "ecc",
      "m4_u", "m4_g", "m4_r", "m4_i", "m4_z",
      "petroR50_u", "petroR90_u", "petroR50_r", "petroR90_r",
      "petroR50_z", "petroR90_z">>

\* One record of the structured array: field k of NumericFields holds
\* base + k, except that petroR90_z holds r90z; every field of a row differs
\* from every other, so a column taken from the wrong field shows.
MkRow(base, r90z, cls) ==
    [f \in {NumericFields[k] : k \in 1..Len(NumericFields)} \cup {"class"} |->
        IF f = "class" THEN cls
        ELSE IF f = "petroR90_z" THEN F(r90z)
        ELSE F(base + CHOOSE k \in 1..Len(NumericFields) : NumericFields[k] = f)]

SpiralRow == MkRow(0, 16, Spiral)

EllipticalRow == MkRow(20, 36, Elliptical)

BarredRow == MkRow(40, 56, BarredSpiral)

\* A merger whose z-band petroR90 is zero.
MergerRow == MkRow(60, 0, Merger)

RowPool == {SpiralRow, EllipticalRow, BarredRow, MergerRow}

\* All catalogues of at most n rows.
Tables(n) == UNION {[1..k -> RowPool] : k \in 0..n}

\* data['name']: one field of every record, in row order.
Column(data, name) == [i \in 1..Len(data) |-> data[i][name]]

\* ------------------------------------------- generate_features_targets

\* np.empty(shape=(n, 13)): n rows of 13 cells (columns 0..12) holding
\* whatever the allocation held, here junk.
FeatureWidth == 13

np_empty2(n, junk) == [i \in 1..n |-> [c \in 0..(FeatureWidth - 1) |-> junk]]

\* np.empty(shape=(n), dtype='<U20').
np_empty1(n, junk) == [i \in 1..n |-> junk]

\* m[:, c] = col
SetColumn(m, c, col) == [i \in DOMAIN m |-> [m[i] EXCEPT ![c] = col[i]]]

\* a / b on two columns, element by element.
ColDiv(a, b) == [i \in DOMAIN a |-> FDiv(a[i], b[i])]

\* Columns 0..9 and the field each is assigned from, in statement order.
FeatureColumns_dup ==
    <<"u-g", "g-r", "r-i", "i-z", "ecc", "m4_u", "m4_g", "m4_g", "m4_i", "m4_z">>

FeatureColumns ==
    <<"u-g", "g-r", "r-i", "i-z", "ecc", "m4_u", "m4_g", "m4_r", "m4_i", "m4_z">>

\* Columns 10..12: the numerator and denominator field of each quotient.
ConcentrationColumns_inverted ==
    << <<"petroR90_u", "petroR50_u">>,
       <<"petroR90_r", "petroR50_r">>,
       <<"petroR90_z", "petroR50_z">> >>

ConcentrationColumns ==
    << <<"petroR50_u", "petroR90_u">>,
       <<"petroR50_r", "petroR90_r">>,
       <<"petroR50_z", "petroR90_z">> >>

\* output_targets[:] = data['class']: every element, in order, stored as U20.
AssignTargets_reversed(arr, col) ==
    [i \in DOMAIN arr |-> AsU20(col[Len(col) + 1 - i])]

AssignTargets(arr, col) == [i \in DOMAIN arr |-> AsU20(col[i])]

\* The ten plain column assignments, applied to m one after the other.
RECURSIVE AssignPlain(_, _, _)
AssignPlain(m, data, k) ==
    IF k > Len(FeatureColumns) THEN m
    ELSE AssignPlain(SetColumn(m, k - 1, Column(data, FeatureColumns[k])),
                     data, k + 1)

\* The three quotient column assignments.
RECURSIVE AssignConcentration(_, _, _)
AssignConcentration(m, data, k) ==
    IF k > Len(ConcentrationColumns) THEN m
    ELSE AssignConcentration(
             SetColumn(m, Len(FeatureColumns) + k - 1,
                       ColDiv(Column(data, ConcentrationColumns[k][1]),
                              Column(data, ConcentrationColumns[k][2]))),
             data, k + 1)

\* Every field the function reads.
FieldsRead ==
    {"class"} \cup {FeatureColumns[k] : k \in 1..Len(FeatureColumns)}
        \cup {ConcentrationColumns[k][1] : k \in 1..Len(ConcentrationColumns)}
        \cup {ConcentrationColumns[k][2] : k \in 1..Len(ConcentrationColumns)}

\* data[name] raises when the array has no such field.
HasFields(data) == \A i \in 1..Len(data) : FieldsRead \subseteq DOMAIN data[i]

\* generate_features_targets(data), given the contents np.empty leaves in the
\* two fresh arrays: the pair (input_features, output_targets).
generate_features_targets(data, junk_f, junk_s) ==
    LET output_targets ==
            AssignTargets(np_empty1(Len(data), junk_s), Column(data, "class"))
        input_features ==
            AssignConcentration(
                AssignPlain(np_empty2(Len(data), junk_f), data, 1), data, 1)
    IN  <<input_features, output_targets>>

\* Contents an uninitialised float64 cell and an uninitialised U20 element
\* may hold.
JunkFloats == {F(0), F(8), NaN}

JunkStrings == {<< >>, Merger}

\* --------------------------------------------------- calculate_accuracy

\* actual_classes[:] == predicted_classes[:] on two arrays of one length:
\* the boolean array of the element-wise comparisons.
ElementwiseEq(a, b) == [i \in 1..Len(a) |-> a[i] = b[i]]

\* sum(bools): Python's sum starts from 0 and adds the elements from the
\* first to the last, True counting 1 and False 0.
RECURSIVE PySum(_, _, _)
PySum(bools, k, acc) ==
    IF k > Len(bools) THEN acc
    ELSE PySum(bools, k + 1, acc + (IF bools[k] THEN 1 ELSE 0))

\* calculate_accuracy(predicted_classes, actual_classes), for arrays of
\* length at least 1 (on empty arrays the division raises).
calculate_accuracy_neq(predicted_classes, actual_classes) ==
    FDiv(F(Len(actual_classes)
             - PySum(ElementwiseEq(actual_classes, predicted_classes), 1, 0)),
         F(Len(actual_classes)))

calculate_accuracy(predicted_classes, actual_classes) ==
    FDiv(F(PySum(ElementwiseEq(actual_classes, predicted_classes), 1, 0)),
         F(Len(actual_classes)))

\* ---------------------------------------------------- cross_val_predict

\* cv=10: the number of folds.
N_SPLITS == 10

\* number_estimators = 50
NumberEstimators == 50

\* Most rows a cross-validated forest is allowed to misclassify in a run.
MaxMispredicted == 2

Range(f) == {f[i] : i \in DOMAIN f}

\* The rows of y that hold label c.
Members(y, c) == {i \in 1..Len(y) : y[i] = c}

\* Classes are numbered in the order in which they first appear in y; the
\* rank of label c is the number of classes that appear before it.
FirstIndex(y, c) == CHOOSE i \in Members(y, c) : \A j \in Members(y, c) : i <= j

ClassesBefore(y, c) == {d \in Range(y) : FirstIndex(y, d) < FirstIndex(y, c)}

\* Stratified k-fold without shuffling, as cross_val_predict uses for a
\* classifier and an integer cv: the class numbers are sorted, slice i of
\* every N_SPLITS-th position of the sorted list goes to fold i, and within a
\* class the rows take their folds in ascending order.  Slots(y, c) are the
\* positions of class c in the sorted list.
Slots(y, c) ==
    LET start == Cardinality(UNION {Members(y, d) : d \in ClassesBefore(y, c)})
    IN  start..(start + Cardinality(Members(y, c)) - 1)

\* The test fold (0..N_SPLITS-1) of row i.
TestFold(y, i) ==
    LET c     == y[i]
        rank  == Cardinality({j \in Members(y, c) : j < i})
        slots == Slots(y, c)
    IN  CHOOSE f \in 0..(N_SPLITS - 1) :
            /\ Cardinality({p \in slots : p % N_SPLITS < f}) <= rank
            /\ rank < Cardinality({p \in slots : p % N_SPLITS <= f})

\* test_folds: the test fold of rows 1..k, as an array.
RECURSIVE TestFolds(_, _)
TestFolds(y, k) ==
    IF k = 0 THEN << >> ELSE Append(TestFolds(y, k - 1), TestFold(y, k))

\* The classes among the rows that the estimator of each of rows 1..k is
\* fitted on: the rows of all other folds.
RECURSIVE TrainClasses(_, _, _)
TrainClasses(y, fold, k) ==
    IF k = 0 THEN << >>
    ELSE Append(TrainClasses(y, fold, k - 1),
                {y[j] : j \in {r \in 1..Len(y) : fold[r] # fold[k]}})

\* cross_val_predict raises ValueError on an empty X, on a feature that is
\* nan or infinite, and when no class has N_SPLITS members.
CanCrossValidate(X, y) ==
    /\ Len(X) > 0
    /\ \A i \in 1..Len(X) : \A c \in DOMAIN X[i] : IsFinite(X[i][c])
    /\ \E c \in Range(y) : Cardinality(Members(y, c)) >= N_SPLITS

\* The arrays cross_val_predict may return: every row is predicted by the
\* forest fitted on the other folds, so with a class of its training rows,
\* and one forest gives rows with equal features the same class.  wrong is
\* the set of misclassified rows.
CrossValPredictions(X, y) ==
    LET n      == Len(y)
        fold   == TestFolds(y, n)
        seen   == TrainClasses(y, fold, n)
        forced == {i \in 1..n : y[i] \notin seen[i]}
        wrongs == {w \in SUBSET (1..n) :
                      forced \subseteq w /\ Cardinality(w) <= MaxMispredicted}
        arrays == UNION {
                    {[i \in 1..n |-> IF i \in w THEN ch[i] ELSE y[i]] :
                        ch \in {c \in [w -> Range(y)] :
                                  \A i \in w : c[i] \in seen[i] \ {y[i]}}} :
                    w \in wrongs}
    IN  {p \in arrays :
            \A i, j \in 1..n :
                (fold[i] = fold[j] /\ X[i] = X[j]) => p[i] = p[j]}

\* ------------------------------------------------------------ the state

VARIABLES
    pc,            \* the statement of the script that runs next
    file,          \* galaxy_catalogue.npy as found on disk
    names,         \* the names bound so far
    data,          \* the loaded catalogue
    features,      \* rf_predict_actual: the feature matrix
    targets,       \* rf_predict_actual: the target array
    rfc,           \* rf_predict_actual: the classifier
    predicted,     \* the cross-validated predictions
    actual,        \* the classes returned beside them
    accuracy,      \* the accuracy score
    class_labels,  \* list(set(actual))
    model_cm,      \* the confusion matrix
    normalize,     \* the normalize argument of plot_confusion_matrix
    stdout,        \* what has been printed, in order
    figure,        \* the current matplotlib figure
    shown,         \* whether plt.show() has displayed it
    raised         \* the exception that ended the script, "" if none

vars ==
    <<pc, file, names, data, features, targets, rfc, predicted, actual,
      accuracy, class_labels, model_cm, normalize, stdout, figure, shown,
      raised>>

NoFigure == [image |-> << >>, title |-> "", ticks |-> << >>, texts |-> << >>,
             xlabel |-> "", ylabel |-> ""]

\* Nothing has been printed, drawn or raised.
Quiet ==
    /\ stdout = << >>
    /\ figure = NoFigure
    /\ shown = FALSE
    /\ raised = ""

\* The statements of the script, in program order.
Statements ==
    <<"load", "features", "classifier", "cross_val", "accuracy", "confusion",
      "plot", "done">>

Position(p) == CHOOSE k \in 1..Len(Statements) : Statements[k] = p

\* An uncaught exception: the script stops where it is.
Raise_swallowed(exc) ==
    /\ raised' = exc
    /\ pc' = Statements[Position(pc) + 1]

Raise(exc) ==
    /\ raised' = exc
    /\ pc' = "failed"

\* ------------------------------------------------------------- __main__

\* data = np.load('galaxy_catalogue.npy')
LoadData ==
    /\ pc = "load"
    /\ IF file.kind = "missing"
       THEN Raise("FileNotFoundError") /\ UNCHANGED <<data, names>>
       ELSE IF file.kind = "corrupt"
       THEN Raise("ValueError") /\ UNCHANGED <<data, names>>
       ELSE /\ data' = file.array
            /\ names' = names \cup {"data"}
            /\ pc' = "features"
            /\ UNCHANGED raised
    /\ UNCHANGED <<file, features, targets, rfc, predicted, actual, accuracy,
                   class_labels, model_cm, normalize, stdout, figure, shown>>

\* rf_predict_actual: features, targets = generate_features_targets(data)
GenerateFeaturesTargets ==
    /\ pc = "features"
    /\ IF ~HasFields(data)
       THEN Raise("ValueError") /\ UNCHANGED <<features, targets, names>>
       ELSE \E junk_f \in JunkFloats, junk_s \in JunkStrings :
              LET r == generate_features_targets(data, junk_f, junk_s)
              IN  /\ features' = r[1]
                  /\ targets' = r[2]
                  /\ names' = names \cup {"features", "targets"}
                  /\ pc' = "classifier"
                  /\ UNCHANGED raised
    /\ UNCHANGED <<file, data, rfc, predicted, actual, accuracy, class_labels,
                   model_cm, normalize, stdout, figure, shown>>

\* rf_predict_actual: rfc = RandomForestClassifier(n_estimators=n_estimators)
InstantiateClassifier ==
    /\ pc = "classifier"
    /\ rfc' = [n_estimators |-> NumberEstimators]
    /\ names' = names \cup {"rfc"}
    /\ pc' = "cross_val"
    /\ UNCHANGED <<file, data, features, targets, predicted, actual, accuracy,
                   class_labels, model_cm, normalize, stdout, figure, shown,
                   raised>>

\* rf_predict_actual: predicted = cross_val_predict(rfc, features, targets,
\* cv=10); return predicted, targets -- bound by the script to predicted, actual.
CrossValidate_swapped_return ==
    /\ pc = "cross_val"
    /\ IF ~CanCrossValidate(features, targets)
       THEN Raise("ValueError") /\ UNCHANGED <<predicted, actual, names>>
       ELSE \E p \in CrossValPredictions(features, targets) :
              /\ predicted' = targets
              /\ actual' = p
              /\ names' = names \cup {"predicted", "actual"}
              /\ pc' = "accuracy"
              /\ UNCHANGED raised
    /\ UNCHANGED <<file, data, features, targets, rfc, accuracy, class_labels,
                   model_cm, normalize, stdout, figure, shown>>

CrossValidate ==
    /\ pc = "cross_val"
    /\ IF ~CanCrossValidate(features, targets)
       THEN Raise("ValueError") /\ UNCHANGED <<predicted, actual, names>>
       ELSE \E p \in CrossValPredictions(features, targets) :
              /\ predicted' = p
              /\ actual' = targets
              /\ names' = names \cup {"predicted", "actual"}
              /\ pc' = "accuracy"
              /\ UNCHANGED raised
    /\ UNCHANGED <<file, data, features, targets, rfc, accuracy, class_labels,
                   model_cm, normalize, stdout, figure, shown>>

\* accuracy = calculate_accuracy(predicted, actual); print("Accuracy score:", accuracy)
CalculateAccuracy ==
    /\ pc = "accuracy"
    /\ IF Len(actual) = 0
       THEN Raise("ZeroDivisionError") /\ UNCHANGED <<accuracy, stdout, names>>
       ELSE /\ accuracy' = calculate_accuracy(predicted, actual)
            /\ stdout' = Append(stdout, <<"Accuracy score:", accuracy'>>)
            /\ names' = names \cup {"accuracy"}
            /\ pc' = "confusion"
            /\ UNCHANGED raised
    /\ UNCHANGED <<file, data, features, targets, rfc, predicted, actual,
                   class_labels, model_cm, normalize, figure, shown>>

\* ----------------------------------------------------- confusion_matrix

\* list(set(actual)): the distinct elements, in whatever order the set
\* iterates; a Python list, indexed from 0.
Orderings(S) ==
    {o \in [0..(Cardinality(S) - 1) -> S] :
        \A i, j \in DOMAIN o : i # j => o[i] # o[j]}

IndexOf(labels, c) == CHOOSE i \in DOMAIN labels : labels[i] = c

\* confusion_matrix(y_true=.., y_pred=.., labels=..): a zero matrix with one
\* row and one column per label, and every sample whose two classes are both
\* among the labels adds one to the cell (index of its true class, index of
\* its predicted class); samples k.. are still to be added.
RECURSIVE CountSamples(_, _, _, _, _)
CountSamples(cm, y_true, y_pred, labels, k) ==
    IF k > Len(y_true) THEN cm
    ELSE IF y_true[k] \in Range(labels) /\ y_pred[k] \in Range(labels)
    THEN LET i == IndexOf(labels, y_true[k])
             j == IndexOf(labels, y_pred[k])
         IN  CountSamples([cm EXCEPT ![i][j] = @ + 1],
                          y_true, y_pred, labels, k + 1)
    ELSE CountSamples(cm, y_true, y_pred, labels, k + 1)

confusion_matrix(y_true, y_pred, labels) ==
    CountSamples([i \in DOMAIN labels |-> [j \in DOMAIN labels |-> 0]],
                 y_true, y_pred, labels, 1)

\* class_labels = list(set(actual))
\* model_cm = confusion_matrix(y_true=actual, y_pred=predicted, labels=class_labels)
ConfusionMatrix_early ==
    /\ pc = "accuracy"
    /\ \E order \in Orderings(Range(actual)) :
          /\ class_labels' = order
          /\ model_cm' = confusion_matrix(actual, predicted, order)
    /\ names' = names \cup {"class_labels", "model_cm"}
    /\ pc' = "plot"
    /\ UNCHANGED <<file, data, features, targets, rfc, predicted, actual,
                   accuracy, normalize, stdout, figure, shown, raised>>

ConfusionMatrix_swapped ==
    /\ pc = "confusion"
    /\ \E order \in Orderings(Range(actual)) :
          /\ class_labels' = order
          /\ model_cm' = confusion_matrix(predicted, actual, order)
    /\ names' = names \cup {"class_labels", "model_cm"}
    /\ pc' = "plot"
    /\ UNCHANGED <<file, data, features, targets, rfc, predicted, actual,
                   accuracy, normalize, stdout, figure, shown, raised>>

ConfusionMatrix ==
    /\ pc = "confusion"
    /\ \E order \in Orderings(Range(actual)) :
          /\ class_labels' = order
          /\ model_cm' = confusion_matrix(actual, predicted, order)
    /\ names' = names \cup {"class_labels", "model_cm"}
    /\ pc' = "plot"
    /\ UNCHANGED <<file, data, features, targets, rfc, predicted, actual,
                   accuracy, normalize, stdout, figure, shown, raised>>

\* ------------------------------------------------ plot_confusion_matrix

NRows(cm) == Cardinality(DOMAIN cm)

NCols(cm) == IF NRows(cm) = 0 THEN 0 ELSE Cardinality(DOMAIN cm[0])

\* Sum of f[0..k-1].
RECURSIVE SumTo(_, _)
SumTo(f, k) == IF k = 0 THEN 0 ELSE SumTo(f, k - 1) + f[k - 1]

\* cm.sum(axis=1): the sum of every row.
RowSums(cm) == [i \in DOMAIN cm |-> SumTo(cm[i], NCols(cm))]

\* cm.astype('float') / cm.sum(axis=1)[:, np.newaxis]: every cell, as a
\* float, divided by the sum of its row.
NormalizeRows(cm) ==
    [i \in DOMAIN cm |-> [j \in DOMAIN cm[i] |-> FDiv(F(cm[i][j]), F(RowSums(cm)[i]))]]

AsFloat(cm) == [i \in DOMAIN cm |-> [j \in DOMAIN cm[i] |-> F(cm[i][j])]]

\* m.max() of a float matrix: nan if any cell is nan, else the largest cell.
FMax(m) ==
    LET cells == {m[i][j] : i \in DOMAIN m, j \in DOMAIN m[0]}
    IN  IF \E x \in cells : IsNaN(x) THEN NaN
        ELSE CHOOSE x \in cells : \A y \in cells : ~FGt(y, x)

DigitChars == <<"0", "1", "2", "3", "4", "5", "6", "7", "8", "9">>

\* "{}".format(n) of an integer: its decimal digits.
RECURSIVE FormatInt(_)
FormatInt(n) ==
    IF n < 0 THEN <<"-">> \o FormatInt(-n)
    ELSE IF n < 10 THEN <<DigitChars[n + 1]>>
    ELSE FormatInt(n \div 10) \o <<DigitChars[(n % 10) + 1]>>

\* "{}".format(x) of a float: its repr, kept as the float it denotes.
FormatFloat(x) == <<x>>

\* itertools.product(range(r), range(c)): the pairs in row-major order.
Product(r, c) == [k \in 1..(r * c) |-> <<(k - 1) \div c, (k - 1) % c>>]

\* plt.text(j, i, s, color=...): first argument x, second y.
Text_transposed(i, j, s, color) == [x |-> i, y |-> j, s |-> s, color |-> color]

Text(i, j, s, color) == [x |-> j, y |-> i, s |-> s, color |-> color]

\* color="white" if cm[i, j] > thresh else "black"
TextColor_geq(v, thresh) == IF ~FGt(thresh, v) THEN "white" ELSE "black"

TextColor(v, thresh) == IF FGt(v, thresh) THEN "white" ELSE "black"

\* plot_confusion_matrix(cm, classes, normalize) on an integer matrix cm of
\* at least one row and column: what it draws on the current figure
\* and what it prints.
plot_confusion_matrix(cm, classes, norm) ==
    LET image  == AsFloat(cm)          \* plt.imshow(cm, ...), before the branch
        cm2    == IF norm THEN NormalizeRows(cm) ELSE AsFloat(cm)
        thresh == FDiv(FMax(cm2), F(2))
        cells  == Product(NRows(cm), NCols(cm))
        texts  == [k \in DOMAIN cells |->
                     LET i == cells[k][1]
                         j == cells[k][2]
                     IN  Text(i, j,
                              IF norm THEN FormatFloat(cm2[i][j])
                                      ELSE FormatInt(cm[i][j]),
                              TextColor(cm2[i][j], thresh))]
    IN  [figure  |-> [image  |-> image,
                      title  |-> "Confusion matrix",
                      ticks  |-> classes,
                      texts  |-> texts,
                      xlabel |-> "Predicted Class",
                      ylabel |-> "True Class"],
         printed |-> << <<IF norm THEN "Normalized confusion matrix"
                                  ELSE "Confusion matrix, without normalization">>,
                        <<IF norm THEN cm2 ELSE cm>> >>]

\* plt.figure(); plot_confusion_matrix(model_cm, classes=class_labels,
\* normalize=False); plt.show()
Plot ==
    /\ pc = "plot"
    /\ LET r == plot_confusion_matrix(model_cm, class_labels, normalize)
       IN  /\ figure' = r.figure
           /\ stdout' = stdout \o r.printed
    /\ shown' = TRUE
    /\ pc' = "done"
    /\ UNCHANGED <<file, names, data, features, targets, rfc, predicted,
                   actual, accuracy, class_labels, model_cm, normalize, raised>>

\* plt.figure() raises when the backend cannot open a window: nothing is
\* drawn or printed.
FigureFails ==
    /\ pc = "plot"
    /\ Raise("RuntimeError")
    /\ UNCHANGED <<file, names, data, features, targets, rfc, predicted,
                   actual, accuracy, class_labels, model_cm, normalize,
                   stdout, figure, shown>>

\* The names a statement of the script reads (the arguments of its call),
\* and the names it binds when it completes.
Reads(p) ==
    CASE p = "load" -> {}
      [] p = "features" -> {"data"}
      [] p = "classifier" -> {}
      [] p = "cross_val" -> {"rfc", "features", "targets"}
      [] p = "accuracy" -> {"predicted", "actual"}
      [] p = "confusion" -> {"actual", "predicted"}
      [] p = "plot" -> {"model_cm", "class_labels"}

Binds(p) ==
    CASE p = "load" -> {"data"}
      [] p = "features" -> {"features", "targets"}
      [] p = "classifier" -> {"rfc"}
      [] p = "cross_val" -> {"predicted", "actual"}
      [] p = "accuracy" -> {"accuracy"}
      [] p = "confusion" -> {"class_labels", "model_cm"}
      [] p = "plot" -> {}

\* ------------------------------------------------------ specifications

\* A table that was saved without field names.
PlainRow == [f \in {"u-g"} |-> F(1)]

\* The catalogues the script is run on: n rows of one kind a, but for at
\* most one row, the m-th, of a kind b; and a table without field names.
Catalogues ==
    UNION {{[i \in 1..n |-> IF i = m THEN b ELSE a] :
                a \in RowPool, b \in RowPool, m \in 0..n} :
           n \in 0..MaxRows}
        \cup {<<PlainRow>>}

Files ==
    {[kind |-> "missing", array |-> << >>], [kind |-> "corrupt", array |-> << >>]}
        \cup {[kind |-> "npy", array |-> t] : t \in Catalogues}

\* The script from its first statement, on any file.
Init ==
    /\ pc = "load"
    /\ file \in Files
    /\ names = {}
    /\ data = << >>
    /\ features = << >>
    /\ targets = << >>
    /\ rfc = [n_estimators |-> 0]
    /\ predicted = << >>
    /\ actual = << >>
    /\ accuracy = NaN
    /\ class_labels = << >>
    /\ model_cm = << >>
    /\ normalize = FALSE
    /\ Quiet

Next ==
    \/ LoadData
    \/ GenerateFeaturesTargets
    \/ InstantiateClassifier
    \/ CrossValidate
    \/ CalculateAccuracy
    \/ ConfusionMatrix
    \/ Plot
    \/ FigureFails

Spec == Init /\ [][Next]_vars

\* generate_features_targets on every catalogue of at most MaxTableRows rows.
InitFeatures ==
    /\ pc = "features"
    /\ data \in Tables(MaxTableRows)
    /\ file = [kind |-> "npy", array |-> data]
    /\ names = {"data"}
    /\ features = << >>
    /\ targets = << >>
    /\ rfc = [n_estimators |-> 0]
    /\ predicted = << >>
    /\ actual = << >>
    /\ accuracy = NaN
    /\ class_labels = << >>
    /\ model_cm = << >>
    /\ normalize = FALSE
    /\ Quiet

NextFeatures == GenerateFeaturesTargets

SpecFeatures == InitFeatures /\ [][NextFeatures]_vars

\* The elements a '<U20' array of classes can hold.
LabelPool == {AsU20(r["class"]) : r \in RowPool}

\* calculate_accuracy on every pair of label arrays of one length, at most
\* MaxLen.
InitAccuracy ==
    /\ pc = "accuracy"
    /\ \E n \in 0..MaxLen :
          /\ predicted \in [1..n -> LabelPool]
          /\ actual \in [1..n -> LabelPool]
    /\ file = [kind |-> "missing", array |-> << >>]
    /\ names = {"predicted", "actual"}
    /\ data = << >>
    /\ features = << >>
    /\ targets = << >>
    /\ rfc = [n_estimators |-> 0]
    /\ accuracy = NaN
    /\ class_labels = << >>
    /\ model_cm = << >>
    /\ normalize = FALSE
    /\ Quiet

NextAccuracy == CalculateAccuracy

SpecAccuracy == InitAccuracy /\ [][NextAccuracy]_vars

TickLabels == <<Spiral, Elliptical, Merger, AsU20(BarredSpiral)>>

\* The counts a cell of those matrices holds.
Counts == {0, 1, 2}

\* plot_confusion_matrix on every matrix of 1..MaxDim rows and columns of
\* such counts, with and without normalize.
InitPlot ==
    /\ pc = "plot"
    /\ \E r \in 1..MaxDim, c \in 1..MaxDim :
          /\ model_cm \in [0..(r - 1) -> [0..(c - 1) -> Counts]]
          /\ class_labels = [i \in 0..(r - 1) |-> TickLabels[i + 1]]
    /\ normalize \in BOOLEAN
    /\ file = [kind |-> "missing", array |-> << >>]
    /\ names = {"class_labels", "model_cm"}
    /\ data = << >>
    /\ features = << >>
    /\ targets = << >>
    /\ rfc = [n_estimators |-> 0]
    /\ predicted = << >>
    /\ actual = << >>
    /\ accuracy = NaN
    /\ Quiet

NextPlot ==
    \/ Plot
    \/ FigureFails

SpecPlot == InitPlot /\ [][NextPlot]_vars

\* ---------------------------------------------------------------- claims

\* The positions at which two arrays of one length hold equal elements.
EqualPositions(a, b) == {i \in 1..Len(a) : a[i] = b[i]}

\* C1: for two label arrays of equal length n >= 1, calculate_accuracy
\* returns the fraction of positions at which they hold equal labels: the
\* result is a finite number r with r * n = the number of equal positions.
C1_AccuracyIsFractionOfEqual ==
    pc = "confusion" =>
        /\ IsFinite(accuracy)
        /\ accuracy.num * Len(actual)
              = accuracy.den * Cardinality(EqualPositions(predicted, actual))

\* Three labels, two of them predicted correctly: accuracy 2/3.
C1_Witness ==
    /\ pc = "confusion"
    /\ Len(actual) = 3
    /\ Cardinality(EqualPositions(predicted, actual)) = 2
    /\ accuracy = [num |-> 2, den |-> 3]

\* C2: for a catalogue of n rows the feature matrix has n rows of 13 cells
\* (columns 0..12), whatever the fresh array held: columns 0-3 are u-g, g-r,
\* r-i, i-z of the same row, column 4 its ecc, columns 5-9 its m4_u, m4_g,
\* m4_r, m4_i, m4_z, and columns 10-12 the quotients of its petroR50 and
\* petroR90 radii in the u, r and z bands.
C2_FeatureMatrixLayout ==
    pc = "classifier" =>
        /\ Len(features) = Len(data)
        /\ \A i \in 1..Len(data) :
              /\ DOMAIN features[i] = 0..12
              /\ features[i][0] = data[i]["u-g"]
              /\ features[i][1] = data[i]["g-r"]
              /\ features[i][2] = data[i]["r-i"]
              /\ features[i][3] = data[i]["i-z"]
              /\ features[i][4] = data[i]["ecc"]
              /\ features[i][5] = data[i]["m4_u"]
              /\ features[i][6] = data[i]["m4_g"]
              /\ features[i][7] = data[i]["m4_r"]
              /\ features[i][8] = data[i]["m4_i"]
              /\ features[i][9] = data[i]["m4_z"]
              /\ features[i][10] = FDiv(data[i]["petroR50_u"], data[i]["petroR90_u"])
              /\ features[i][11] = FDiv(data[i]["petroR50_r"], data[i]["petroR90_r"])
              /\ features[i][12] = FDiv(data[i]["petroR50_z"], data[i]["petroR90_z"])

\* A matrix built from three rows of three different kinds.
C2_Witness ==
    /\ pc = "classifier"
    /\ Len(features) = 3
    /\ data[1] = SpiralRow
    /\ data[2] = EllipticalRow
    /\ data[3] = MergerRow
    /\ features[2][7] = F(28)

\* v is the float64 quotient num / den of two finite floats: a finite v
\* satisfies v * den = num, and a zero den gives nan or the infinity of num's
\* sign.
IsQuotient(v, num, den) ==
    IF den.num = 0
    THEN v.den = 0 /\ v.num = Sign(num.num)
    ELSE v.den > 0 /\ v.num * den.num * num.den = v.den * num.num * den.den

\* C3: in every row, column 10 is petroR50_u / petroR90_u, column 11 is
\* petroR50_r / petroR90_r and column 12 is petroR50_z / petroR90_z of that
\* row: R50 over R90, both of one band and one row.
C3_ConcentrationIsR50OverR90 ==
    pc = "classifier" =>
        \A i \in 1..Len(data) :
            /\ IsQuotient(features[i][10], data[i]["petroR50_u"], data[i]["petroR90_u"])
            /\ IsQuotient(features[i][11], data[i]["petroR50_r"], data[i]["petroR90_r"])
            /\ IsQuotient(features[i][12], data[i]["petroR50_z"], data[i]["petroR90_z"])

\* A spiral row (petroR50_u / petroR90_u = 11/12) beside a merger row whose
\* z-band petroR90 is zero.
C3_Witness ==
    /\ pc = "classifier"
    /\ \E i, j \in 1..Len(data) :
          /\ features[i][10] = [num |-> 11, den |-> 12]
          /\ features[i][12] = [num |-> 15, den |-> 16]
          /\ data[j]["petroR90_z"] = F(0)
          /\ features[j][12] = [num |-> 1, den |-> 0]

\* C4 as stated: n targets, and target i is the class of data row i.
C4_TargetIsClassOfRow ==
    pc = "classifier" =>
        /\ Len(targets) = Len(data)
        /\ \A i \in 1..Len(data) : targets[i] = data[i]["class"]

\* C4, amended: n targets, and target i is the first 20 characters of the
\* class of data row i -- the class itself when it has at most 20.
C4_TargetIsClassPrefixOfRow ==
    pc = "classifier" =>
        /\ Len(targets) = Len(data)
        /\ \A i \in 1..Len(data) :
              LET cls == data[i]["class"]
              IN  /\ Len(targets[i]) = (IF Len(cls) > 20 THEN 20 ELSE Len(cls))
                  /\ \A k \in 1..Len(targets[i]) : targets[i][k] = cls[k]
                  /\ Len(cls) <= 20 => targets[i] = cls

\* Three rows of three classes, the last one longer than 20 characters.
C4_Witness ==
    /\ pc = "classifier"
    /\ Len(targets) = 3
    /\ targets[1] = Spiral
    /\ targets[2] = Elliptical
    /\ data[3]["class"] = BarredSpiral
    /\ Len(targets[3]) = 20

\* C5: the confusion matrix of the script is square and indexed by class
\* label: class_labels lists the k distinct actual classes once each, the
\* matrix is k by k, and cell [i][j] is the number of rows whose actual class
\* is class_labels[i] and whose predicted class is class_labels[j].
C5_ConfusionMatrixCountsByLabel ==
    "model_cm" \in names =>
        LET k == Cardinality(Range(actual))
        IN  /\ DOMAIN class_labels = 0..(k - 1)
            /\ Range(class_labels) = Range(actual)
            /\ DOMAIN model_cm = 0..(k - 1)
            /\ \A i \in 0..(k - 1) :
                  /\ DOMAIN model_cm[i] = 0..(k - 1)
                  /\ \A j \in 0..(k - 1) :
                        model_cm[i][j] =
                            Cardinality({r \in 1..Len(actual) :
                                            /\ actual[r] = class_labels[i]
                                            /\ predicted[r] = class_labels[j]})

\* Two classes; one row of the second was taken for the first and no row of
\* the first for the second.
C5_Witness ==
    /\ "model_cm" \in names
    /\ Cardinality(Range(actual)) = 2
    /\ \E i, j \in DOMAIN model_cm :
          /\ i # j
          /\ model_cm[i][i] = 10
          /\ model_cm[j][i] = 1
          /\ model_cm[i][j] = 0

\* The statement before p in program order.
Previous(p) == Statements[Position(p) - 1]

\* C6 as stated: the steps run in program order, each after the previous
\* one has completed and each consuming the previous step's result (it
\* reads a name the step before it bound); accuracy and the confusion
\* matrix are computed only once the predictions exist, and the figure is
\* drawn only once the confusion matrix exists.
C6_EachStepConsumesPrevious ==
    [][ /\ pc \in Range(Statements) \ {"done"}
        /\ \/ pc' = "failed" /\ names' = names
           \/ /\ pc' = Statements[Position(pc) + 1]
              /\ pc # "load" => Reads(pc) \cap Binds(Previous(pc)) # {}
              /\ names' = names \cup Binds(pc)
        /\ accuracy' # accuracy => {"predicted", "actual"} \subseteq names
        /\ model_cm' # model_cm => {"predicted", "actual"} \subseteq names
        /\ figure' # figure => "model_cm" \in names ]_vars

\* C6, amended: the script runs load, build features, instantiate the
\* classifier, cross-validate, accuracy, confusion matrix, plot in exactly
\* this order: every step is either the failure of the current statement or
\* its completion, which moves to the next statement, finds everything it
\* reads already bound by an earlier step and binds its own results;
\* accuracy and the confusion matrix are computed only once the predictions
\* exist, and the figure is drawn and shown only once the confusion matrix
\* exists.
C6_StepsRunInOrder ==
    [][ /\ pc \in Range(Statements) \ {"done"}
        /\ \/ pc' = "failed" /\ names' = names
           \/ /\ pc' = Statements[Position(pc) + 1]
              /\ Reads(pc) \subseteq names
              /\ names' = names \cup Binds(pc)
        /\ accuracy' # accuracy => {"predicted", "actual"} \subseteq names
        /\ model_cm' # model_cm => {"predicted", "actual"} \subseteq names
        /\ figure' # figure => "model_cm" \in names
        /\ shown' # shown => "model_cm" \in names ]_vars

\* The script ran to its end: everything is bound and the figure is shown.
C6_Witness ==
    /\ pc = "done"
    /\ names = {"data", "features", "targets", "rfc", "predicted", "actual",
                "accuracy", "class_labels", "model_cm"}
    /\ shown
    /\ Len(stdout) = 3

AccuracyPrinted == \E k \in 1..Len(stdout) : stdout[k][1] = "Accuracy score:"

\* C8 as stated: once a step has failed the script has stopped, no accuracy
\* has been printed and no plot has been produced.
C8_FailureLeavesNoOutput ==
    raised # "" =>
        /\ pc = "failed"
        /\ ~AccuracyPrinted
        /\ figure = NoFigure
        /\ ~shown

\* C8, amended: the script handles no error.  A statement that fails ends
\* the script with the exception the library raised: no step follows a
\* failure, the failing step binds, prints and draws nothing, a file that is
\* missing or malformed fails the load, and after a failure no plot has
\* been produced; the accuracy has been printed only if the failing
\* statement comes after the accuracy statement.
C8_FailurePropagates ==
    [][ /\ raised = ""
        /\ raised' # "" =>
              /\ pc' = "failed"
              /\ raised' \in {"FileNotFoundError", "ValueError",
                              "ZeroDivisionError", "RuntimeError"}
              /\ names' = names /\ stdout' = stdout
              /\ figure' = figure /\ shown' = shown
              /\ figure' = NoFigure /\ ~shown'
              /\ AccuracyPrinted' <=> pc \in {"confusion", "plot"}
        /\ (pc = "load" /\ file.kind # "npy") => raised' # ""
        /\ raised' = "" => pc' # "failed" ]_vars

\* The load of a missing file failed: nothing is bound and nothing printed.
C8_Witness ==
    /\ pc = "failed"
    /\ raised = "FileNotFoundError"
    /\ names = {}
    /\ stdout = << >>

\* The fold part of C9, for the arrays the script holds: every row is in one
\* of the 10 folds, every fold tests some row, and the prediction of a row
\* is a class of the rows outside its fold, on which its forest was fitted.
PredictedOutOfFold ==
    LET n    == Len(actual)
        fold == TestFolds(actual, n)
    IN  /\ Len(predicted) = n
        /\ \A i \in 1..n : fold[i] \in 0..9
        /\ \A f \in 0..9 : \E i \in 1..n : fold[i] = f
        /\ \A i \in 1..n :
              \E j \in 1..n : fold[j] # fold[i] /\ predicted[i] = actual[j]
        /\ rfc.n_estimators = 50

\* C9 as stated: rf_predict_actual returns two arrays as long as data,
\* actual[i] is the class of data row i, and predicted[i] comes from 10-fold
\* cross-validation of a forest of n_estimators trees.
C9_ActualIsClassOfRow ==
    "predicted" \in names =>
        /\ Len(actual) = Len(data)
        /\ \A i \in 1..Len(data) : actual[i] = data[i]["class"]
        /\ PredictedOutOfFold

\* C9, amended: the same, but actual[i] is the first 20 characters of the
\* class of data row i -- the class itself when it has at most 20.
C9_ActualIsClassPrefixOfRow ==
    "predicted" \in names =>
        /\ Len(actual) = Len(data)
        /\ \A i \in 1..Len(data) :
              LET cls == data[i]["class"]
              IN  /\ Len(actual[i]) = (IF Len(cls) > 20 THEN 20 ELSE Len(cls))
                  /\ \A k \in 1..Len(actual[i]) : actual[i][k] = cls[k]
        /\ PredictedOutOfFold

\* Eleven rows, ten of one class and one of a class of more than 20
\* characters, which no forest fitted without it can predict; one more row
\* is misclassified.
C9_Witness ==
    /\ "predicted" \in names
    /\ Len(data) = 11
    /\ \E i \in 1..11 :
          /\ data[i]["class"] = BarredSpiral
          /\ predicted[i] = Spiral
    /\ Cardinality({i \in 1..11 : predicted[i] # actual[i]}) = 2

\* The number a string of decimal digits denotes.
RECURSIVE ParseDigits(_)
ParseDigits(str) ==
    IF Len(str) = 0 THEN 0
    ELSE 10 * ParseDigits(SubSeq(str, 1, Len(str) - 1))
           + (CHOOSE d \in 0..9 : DigitChars[d + 1] = str[Len(str)])

\* The matrix print(cm) wrote: the last thing printed.
PrintedMatrix == stdout[Len(stdout)][1]

\* m is cm with every cell divided by the sum of its row.
IsRowNormalized(m, cm) ==
    /\ DOMAIN m = DOMAIN cm
    /\ \A i \in DOMAIN cm :
          /\ DOMAIN m[i] = DOMAIN cm[i]
          /\ \A j \in DOMAIN cm[i] :
                IsQuotient(m[i][j], F(cm[i][j]), F(SumTo(cm[i], NCols(cm))))

\* The values the annotations show, as a matrix.
AnnotatedFloats ==
    [i \in DOMAIN model_cm |-> [j \in DOMAIN model_cm[i] |->
        (CHOOSE t \in Range(figure.texts) : t.x = j /\ t.y = i).s[1]]]

\* C7: with normalize=True the row-normalized matrix is the matrix printed,
\* the matrix drawn as the heatmap image and the matrix whose values
\* annotate the cells.
C7_NormalizedPrintedDrawnAnnotated ==
    (pc = "done" /\ normalize) =>
        /\ IsRowNormalized(PrintedMatrix, model_cm)
        /\ IsRowNormalized(figure.image, model_cm)
        /\ IsRowNormalized(AnnotatedFloats, model_cm)

\* C10: for a matrix of r rows and c columns the figure carries exactly r*c
\* annotations, exactly one per cell (i, j), placed at x = j and y = i and
\* showing the value of cell (i, j) of the matrix that is annotated: the
\* count in decimal digits, or its quotient by the row sum under normalize.
C10_OneAnnotationPerCell ==
    pc = "done" =>
        /\ Len(figure.texts) = NRows(model_cm) * NCols(model_cm)
        /\ \A i \in DOMAIN model_cm : \A j \in DOMAIN model_cm[i] :
              /\ Cardinality({k \in 1..Len(figure.texts) :
                                 figure.texts[k].x = j /\ figure.texts[k].y = i}) = 1
              /\ \A k \in 1..Len(figure.texts) :
                    (figure.texts[k].x = j /\ figure.texts[k].y = i) =>
                        IF normalize
                        THEN IsQuotient(figure.texts[k].s[1], F(model_cm[i][j]),
                                        F(SumTo(model_cm[i], NCols(model_cm))))
                        ELSE ParseDigits(figure.texts[k].s) = model_cm[i][j]

\* A matrix of one row and two columns, [[0, 2]], drawn without normalize:
\* the second annotation is "2" at x = 1, y = 0.
C10_Witness ==
    /\ pc = "done"
    /\ ~normalize
    /\ NRows(model_cm) = 1
    /\ NCols(model_cm) = 2
    /\ Len(figure.texts) = 2
    /\ figure.texts[2].x = 1
    /\ figure.texts[2].y = 0
    /\ figure.texts[2].s = <<"2">>

\* The value an annotation shows, as a float: the float itself under
\* normalize, else the integer its digits denote.
AnnotatedValue(t) == IF normalize THEN t.s[1] ELSE F(ParseDigits(t.s))

\* The values of all annotations of the figure.
AnnotatedValues == {AnnotatedValue(t) : t \in Range(figure.texts)}

\* m is the largest of a set of finite floats: a member no member exceeds.
IsLargest(m, vals) ==
    /\ m \in vals
    /\ \A y \in vals : y.num * m.den <= m.num * y.den

\* v is strictly greater than half of m, both finite: 2v > m.
AboveHalf(v, m) == 2 * v.num * m.den > m.num * v.den

====
